---- MODULE Spec2Model ----
(***************************************************************************)
(* Model of the iterfun extension module (src/fun.c): the static data the  *)
(* translation unit defines, its initialisation by PyInit_iterfun, and     *)
(* calls of hello_world made by host threads through the function table.   *)
(*                                                                         *)
(* Text is modelled as sequences of numbers: a C string is its bytes with  *)
(* the terminating NUL, a host str object is its code points.              *)
(* Object allocation in the host is taken to succeed.                      *)
(***************************************************************************)
EXTENDS Integers, Sequences, FiniteSets, TLC

\* ---- bounds ----
NumCallers == 2
MaxArgs == 2
MaxCalls == 3
MaxModuleIndex == 2

Callers == 1..NumCallers
ArgValues == {"a", "b"}
\* Argument tuples of every length up to MaxArgs; those of length one carry
\* each of the values, so that tuples differ in length and in content.
ArgTuples ==
    {<<>>} \cup {<<v>> : v \in ArgValues} \cup {[i \in 1..n |-> "a"] : n \in 2..MaxArgs}

NULL == "NULL"

VARIABLES
    literal,           \* the string literal of fun.c:6, as stored (NUL-terminated)
    module_functions,  \* static PyMethodDef module_functions[]
    iterfun_module,    \* static struct PyModuleDef iterfun_module
    sys_modules,       \* module objects the host has created from this file
    pc,                \* per caller: "idle", "in_body", "returned"
    frame,             \* per caller: the call in flight
    result,            \* per caller: what the call in flight produced
    log                \* completed calls, in order of completion

vars == <<literal, module_functions, iterfun_module, sys_modules, pc, frame, result, log>>
statics == <<literal, module_functions, iterfun_module>>

\* ---- host values ----
Value(type, v) == [null |-> FALSE, exc |-> "none", type |-> type, value |-> v]
Error(exc) == [null |-> TRUE, exc |-> exc, type |-> "none", value |-> <<>>]
NoResult == Error("none")
NoFrame == [ml_meth |-> NULL, ml_flags |-> {}, self |-> NULL, args |-> <<>>]

\* ---- C strings and their conversion to str ----
RECURSIVE strlen(_)
strlen(s) == IF s = <<>> \/ Head(s) = 0 THEN 0 ELSE 1 + strlen(Tail(s))

SeqLen(b) ==
    IF b < 128 THEN 1
    ELSE IF b \in 194..223 THEN 2
    ELSE IF b \in 224..239 THEN 3
    ELSE IF b \in 240..244 THEN 4
    ELSE 0

IsCont(b) == b \in 128..191

CodePoint(bs, k) ==
    IF k = 1 THEN bs[1]
    ELSE IF k = 2 THEN (bs[1] - 192) * 64 + (bs[2] - 128)
    ELSE IF k = 3 THEN (bs[1] - 224) * 4096 + (bs[2] - 128) * 64 + (bs[3] - 128)
    ELSE (bs[1] - 240) * 262144 + (bs[2] - 128) * 4096 + (bs[3] - 128) * 64 + (bs[4] - 128)

WellFormed(bs, k) ==
    /\ k > 0
    /\ Len(bs) >= k
    /\ \A i \in 2..k : IsCont(bs[i])
    /\ k = 3 => (CodePoint(bs, 3) >= 2048 /\ CodePoint(bs, 3) \notin 55296..57343)
    /\ k = 4 => CodePoint(bs, 4) \in 65536..1114111

RECURSIVE Utf8Valid(_)
Utf8Valid(bs) ==
    IF bs = <<>> THEN TRUE
    ELSE LET k == SeqLen(Head(bs))
         IN  WellFormed(bs, k) /\ Utf8Valid(SubSeq(bs, k + 1, Len(bs)))

RECURSIVE Utf8Decode(_)
Utf8Decode(bs) ==
    IF bs = <<>> THEN <<>>
    ELSE LET k == SeqLen(Head(bs))
         IN  <<CodePoint(bs, k)>> \o Utf8Decode(SubSeq(bs, k + 1, Len(bs)))

PyUnicode_FromString(s) ==
    LET bs == SubSeq(s, 1, strlen(s))
    IN  IF Utf8Valid(bs) THEN Value("str", Utf8Decode(bs))
        ELSE Error("UnicodeDecodeError")

Py_BuildValue(format, s) ==
    IF format = "s" THEN PyUnicode_FromString(s)
    ELSE IF format = "y" THEN Value("bytes", SubSeq(s, 1, strlen(s)))
    ELSE Error("SystemError")

\* ---- static data of fun.c ----
greeting_capitalised == <<72, 101, 108, 108, 111, 44, 32, 119, 111, 114, 108, 100, 33, 0>>

greeting == <<104, 101, 108, 108, 111, 44, 32, 119, 111, 114, 108, 100, 33, 0>>

module_functions_noargs ==
    << [ml_name |-> "hello_world", ml_meth |-> "hello_world",
        ml_flags |-> {"METH_NOARGS"}, ml_doc |-> "print hello world"],
       [ml_name |-> NULL, ml_meth |-> NULL, ml_flags |-> {}, ml_doc |-> NULL] >>

module_functions_two_entries ==
    << [ml_name |-> "hello_world", ml_meth |-> "hello_world",
        ml_flags |-> {"METH_VARARGS"}, ml_doc |-> "print hello world"],
       [ml_name |-> "hello", ml_meth |-> "hello_world",
        ml_flags |-> {"METH_VARARGS"}, ml_doc |-> "print hello world"],
       [ml_name |-> NULL, ml_meth |-> NULL, ml_flags |-> {}, ml_doc |-> NULL] >>

module_functions_table ==
    << [ml_name |-> "hello_world", ml_meth |-> "hello_world",
        ml_flags |-> {"METH_VARARGS"}, ml_doc |-> "print hello world"],
       [ml_name |-> NULL, ml_meth |-> NULL, ml_flags |-> {}, ml_doc |-> NULL] >>

iterfun_module_def ==
    [m_base |-> [m_index |-> 0], m_name |-> "iterfun", m_doc |-> NULL,
     m_size |-> -1, m_methods |-> "module_functions"]

\* ---- module creation ----
RECURSIVE MethodCount(_)
MethodCount(table) ==
    IF table = <<>> \/ Head(table).ml_name = NULL THEN 0
    ELSE 1 + MethodCount(Tail(table))

PyModule_Create(def, table) ==
    LET n == MethodCount(table)
        names == {table[i].ml_name : i \in 1..n}
    IN  [name |-> def.m_name,
         dict |-> [nm \in names |->
                     LET i == CHOOSE j \in 1..n :
                                 /\ table[j].ml_name = nm
                                 /\ \A l \in (j + 1)..n : table[l].ml_name # nm
                     IN  [ml_meth |-> table[i].ml_meth, ml_flags |-> table[i].ml_flags,
                          self |-> def.m_name]]]

Init ==
    /\ literal = greeting
    /\ module_functions = module_functions_table
    /\ iterfun_module = iterfun_module_def
    /\ sys_modules = {}
    /\ pc = [c \in Callers |-> "idle"]
    /\ frame = [c \in Callers |-> NoFrame]
    /\ result = [c \in Callers |-> NoResult]
    /\ log = <<>>

PyInit_iterfun ==
    /\ sys_modules = {}
    /\ \E idx \in 1..MaxModuleIndex :
         iterfun_module' = [iterfun_module EXCEPT !.m_base.m_index = idx]
    /\ sys_modules' = {PyModule_Create(iterfun_module, module_functions)}
    /\ UNCHANGED <<literal, module_functions, pc, frame, result, log>>

InFlight == Cardinality({c \in Callers : pc[c] # "idle"})

\* A caller looks hello_world up in the module and calls it with an argument
\* tuple; the host passes the tuple on as the entry's flags prescribe.
Call(c, a) ==
    /\ pc[c] = "idle"
    /\ Len(log) + InFlight < MaxCalls
    /\ \E m \in sys_modules :
         /\ "hello_world" \in DOMAIN m.dict
         /\ LET f == m.dict["hello_world"]
            IN  /\ frame' = [frame EXCEPT ![c] =
                      [ml_meth |-> f.ml_meth, ml_flags |-> f.ml_flags,
                       self |-> f.self, args |-> a]]
                /\ IF "METH_NOARGS" \in f.ml_flags /\ Len(a) # 0
                   THEN /\ result' = [result EXCEPT ![c] = Error("TypeError")]
                        /\ pc' = [pc EXCEPT ![c] = "returned"]
                   ELSE /\ result' = [result EXCEPT ![c] = NoResult]
                        /\ pc' = [pc EXCEPT ![c] = "in_body"]
    /\ UNCHANGED <<literal, module_functions, iterfun_module, sys_modules, log>>

\* Variants of hello_world with a defect each, used to test the properties below.
\* Wrong format unit: the value cannot be built.
hello_world_badformat(c) ==
    /\ pc[c] = "in_body"
    /\ frame[c].ml_meth = "hello_world"
    /\ result' = [result EXCEPT ![c] = Py_BuildValue("q", literal)]
    /\ pc' = [pc EXCEPT ![c] = "returned"]
    /\ UNCHANGED <<literal, module_functions, iterfun_module, sys_modules, frame, log>>

\* Validates the argument tuple against the empty format, as PyArg_ParseTuple(args, "") does.
hello_world_parse(c) ==
    /\ pc[c] = "in_body"
    /\ frame[c].ml_meth = "hello_world"
    /\ result' = [result EXCEPT ![c] =
          IF Len(frame[c].args) # 0 THEN Error("TypeError")
          ELSE Py_BuildValue("s", literal)]
    /\ pc' = [pc EXCEPT ![c] = "returned"]
    /\ UNCHANGED <<literal, module_functions, iterfun_module, sys_modules, frame, log>>

\* Cuts the text at the comma in place after building the value.
hello_world_inplace(c) ==
    /\ pc[c] = "in_body"
    /\ frame[c].ml_meth = "hello_world"
    /\ result' = [result EXCEPT ![c] = Py_BuildValue("s", literal)]
    /\ literal' = [literal EXCEPT ![6] = 0]
    /\ pc' = [pc EXCEPT ![c] = "returned"]
    /\ UNCHANGED <<module_functions, iterfun_module, sys_modules, frame, log>>

\* Keeps the built value in one slot that all callers share.
hello_world_shared(c) ==
    /\ pc[c] = "in_body"
    /\ frame[c].ml_meth = "hello_world"
    /\ result' = [d \in Callers |-> Py_BuildValue("s", literal)]
    /\ pc' = [pc EXCEPT ![c] = "returned"]
    /\ UNCHANGED <<literal, module_functions, iterfun_module, sys_modules, frame, log>>

hello_world(c) ==
    /\ pc[c] = "in_body"
    /\ frame[c].ml_meth = "hello_world"
    /\ result' = [result EXCEPT ![c] = Py_BuildValue("s", literal)]
    /\ pc' = [pc EXCEPT ![c] = "returned"]
    /\ UNCHANGED <<literal, module_functions, iterfun_module, sys_modules, frame, log>>

Return(c) ==
    /\ pc[c] = "returned"
    /\ log' = Append(log, [args |-> frame[c].args, outcome |-> result[c]])
    /\ pc' = [pc EXCEPT ![c] = "idle"]
    /\ frame' = [frame EXCEPT ![c] = NoFrame]
    /\ result' = [result EXCEPT ![c] = NoResult]
    /\ UNCHANGED <<literal, module_functions, iterfun_module, sys_modules>>

Next ==
    \/ PyInit_iterfun
    \/ \E c \in Callers, a \in ArgTuples : Call(c, a)
    \/ \E c \in Callers : hello_world(c)
    \/ \E c \in Callers : Return(c)

Spec == Init /\ [][Next]_vars

TypeOK ==
    /\ pc \in [Callers -> {"idle", "in_body", "returned"}]
    /\ Len(log) <= MaxCalls
    /\ Cardinality(sys_modules) <= 1

\* ---- properties ----
\* "hello, world!" as code points: h e l l o , space w o r l d !
HelloWorldText == <<104, 101, 108, 108, 111, 44, 32, 119, 111, 114, 108, 100, 33>>
HelloWorldStr == Value("str", HelloWorldText)

Loaded == sys_modules # {}

\* C1: every invocation with no arguments returns exactly the str
\* "hello, world!", however many calls were completed before it.
C1_ReturnsGreeting ==
    /\ \A c \in Callers :
         (pc[c] = "returned" /\ frame[c].args = <<>>) => result[c] = HelloWorldStr
    /\ \A k \in 1..Len(log) :
         log[k].args = <<>> => log[k].outcome = HelloWorldStr

C1_Witness ==
    /\ Len(log) >= 2
    /\ \E c \in Callers : pc[c] = "returned" /\ frame[c].args = <<>>

\* C2 as stated: a call with one extra argument ends in an error outcome.
C2_ExtraArgRejected ==
    \A k \in 1..Len(log) : Len(log[k].args) = 1 => log[k].outcome.null

\* C2 as amended: a call with one extra argument is accepted; the argument is
\* ignored and the call returns the str "hello, world!" without an error.
C2_ExtraArgIgnored ==
    \A k \in 1..Len(log) :
        Len(log[k].args) = 1 =>
            (~log[k].outcome.null /\ log[k].outcome.value = HelloWorldText)

C2_Witness == \E k \in 1..Len(log) : Len(log[k].args) = 1

\* C3: no invocation ends in an error outcome (NULL with an exception set);
\* every call that has run its body holds a str value.
C3_NoFailure ==
    /\ \A c \in Callers :
         pc[c] = "returned" =>
            (~result[c].null /\ result[c].exc = "none" /\ result[c].type = "str")
    /\ \A k \in 1..Len(log) :
         ~log[k].outcome.null /\ log[k].outcome.exc = "none" /\ log[k].outcome.type = "str"

C3_Witness ==
    /\ Len(log) >= 1
    /\ \E c \in Callers : pc[c] = "returned" /\ Len(frame[c].args) = MaxArgs

\* C4: in any sequence of completed calls, the k-th result equals the first
\* result, and a completed call leaves the text the next call reads as it was.
C4_SameEveryTime ==
    \A k \in 1..Len(log) :
        /\ log[k].outcome = log[1].outcome
        /\ Py_BuildValue("s", literal) = log[k].outcome

C4_Witness == Len(log) = MaxCalls

\* C5: under every interleaving of concurrent calls each caller receives
\* "hello, world!", and the body step of one caller writes neither the static
\* data nor anything that belongs to another caller.
C5_Concurrent ==
    [][\A c \in Callers :
          (pc[c] = "in_body" /\ pc'[c] = "returned") =>
             /\ result'[c] = HelloWorldStr
             /\ statics' = statics
             /\ sys_modules' = sys_modules
             /\ \A d \in Callers \ {c} :
                  pc'[d] = pc[d] /\ frame'[d] = frame[d] /\ result'[d] = result[d]]_vars

C5_Witness ==
    \E c, d \in Callers :
        /\ c # d
        /\ pc[c] = "returned" /\ pc[d] = "in_body"
        /\ result[c] = HelloWorldStr

\* C6: once initialised, the module is named "iterfun" and exposes exactly one
\* name, "hello_world", bound to the function hello_world; the function table
\* holds that entry followed only by the sentinel.
C6_SingleEntryPoint ==
    /\ \A m \in sys_modules :
         /\ m.name = "iterfun"
         /\ DOMAIN m.dict = {"hello_world"}
         /\ m.dict["hello_world"].ml_meth = "hello_world"
    /\ Len(module_functions) = 2
    /\ module_functions[1].ml_name = "hello_world"
    /\ module_functions[2].ml_name = NULL

C6_Witness == Loaded /\ iterfun_module.m_base.m_index > 0

\* C7: once the module is loaded it stays loaded, and no step (in particular
\* no call) changes the function table, the module definition, the literal or
\* the module object.
C7_SingleState ==
    [][Loaded => (statics' = statics /\ sys_modules' = sys_modules)]_vars

C7_Witness ==
    /\ Loaded
    /\ Len(log) >= 2
    /\ literal = greeting
    /\ module_functions = module_functions_table

\* C8: the outcome does not depend on the arguments: any two calls with
\* different argument tuples have the same outcome, the str "hello, world!".
C8_ArgsIgnored ==
    /\ \A i, j \in 1..Len(log) :
         log[i].args # log[j].args =>
            (log[i].outcome = log[j].outcome /\ log[i].outcome = HelloWorldStr)
    /\ \A c, d \in Callers :
         (pc[c] = "returned" /\ pc[d] = "returned" /\ frame[c].args # frame[d].args) =>
            (result[c] = result[d] /\ result[c] = HelloWorldStr)

C8_Witness ==
    /\ \E i \in 1..Len(log) : Len(log[i].args) = 0
    /\ \E i \in 1..Len(log) : Len(log[i].args) = 1
    /\ \E i \in 1..Len(log) : Len(log[i].args) >= 2
====
